---- MODULE Spec2Model ----
(***************************************************************************)
(* Model of the proxy rotation scheduler (src/proxyManager.ts).            *)
(*                                                                         *)
(* ProxyManager is a synchronous class used from single-threaded JavaScript*)
(* jobs: every public method runs to completion before any other job runs, *)
(* so each method is one atomic action and the interleavings of concurrent *)
(* jobs are the interleavings of these actions.  Date.now() is the clock   *)
(* variable now, advanced by Tick in steps of half a rate window.          *)
(*                                                                         *)
(* Second part: the tab pool of the browser (class DriverManager of        *)
(* src/selenium/driverManager.ts, lines 19-386).  Its methods are async:   *)
(* a job runs from one await of a WebDriver command to the next without    *)
(* interruption, and at the await any other job may run.  A command acts   *)
(* on the browser when it is issued; a command that fails rejects the      *)
(* awaiting call.  Awaits whose continuation touches no state of the       *)
(* manager (setTimeouts, the anti-detection script, the DevTools commands) *)
(* are folded into the step before them.                                   *)
(*                                                                         *)
(* Third part: the trackers.  The Playwright tracker's checkKeywordRank    *)
(* with the DriverManager of src/services/driverManager.ts (SpecPage), and *)
(* one call of SeleniumRankTracker.processJob, the retry loop of           *)
(* src/seleniumRankTracker.ts, lines 48-178 (SpecJob), and the dispatcher  *)
(* processMultipleKeywords of the same file, lines 284-355, with its jobs' *)
(* promises settling in any order (SpecRun).                               *)
(***************************************************************************)
EXTENDS Integers, Sequences, FiniteSets, TLC

\* ------------------------------------------------------------------ bounds
MaxProxies == 2           \* Proxy objects held by the pool at one time
MaxTicks == 2             \* clock steps (of half a window) in one run
MaxCalls == 5             \* pool method calls in one run of Spec
MaxHistory == 5           \* recorded calls in one run of SpecHist, SpecDetect
MaxPoolCalls == 4         \* recorded calls in one run of SpecPool
MaxTabIds == 2            \* tabs created in one run of SpecTabs
MaxClosers == 1           \* closeTab tasks pending at one time
MaxBrowsers == 3          \* browsers launched and not closed, in SpecPage
MaxCount == 3             \* retries and recorded errors are followed exactly
                          \* below this; MaxCount stands for all larger values
MaxKeywords == 5          \* keywords passed to processMultipleKeywords
MaxJobTicks == 2          \* half windows after which a job with a pool starts
                          \* no further iteration, in SpecJob

\* ------------------------------------------------------- program constants
RateWindow == 60000       \* "oneMinuteAgo = now - 60000"

HalfWindow == RateWindow \div 2
ProxyIds == {"a", "b"}
Strategies == {"round-robin", "least-used"}
\* configured requestsPerMinute: a budget of one request, and the default
DefaultRequestsPerMinute == 2
RequestsPerMinute == {1, DefaultRequestsPerMinute}
\* configured cooldownPeriod: shorter and longer than the rate window
CooldownPeriods == {HalfWindow, 3 * HalfWindow}
\* the optional cooldownPeriod argument of markProxyDetected; 0 is "absent"
\* (the code reads it with ||, so undefined and 0 are the same)
CooldownArgs == {0, HalfWindow}

None == {}
Some(v) == {v}

NoProxy == [id |-> "none", isActive |-> FALSE]
NoResult == [kind |-> "none", proxy |-> NoProxy, nextAvailableIn |-> None]

VARIABLES
  proxies,        \* this.proxies: sequence of Proxy objects [id, isActive]
  proxyUsage,     \* this.proxyUsage: Map id -> ProxyUsage; the reference
                  \* usage.proxy is the position of that object in proxies
  currentIndex,   \* this.currentIndex
  options,        \* this.options
  now,            \* Date.now()
  result,         \* what the latest call returned when it was getNextProxy
                  \* (NoResult after a call of any other method)
  calls,          \* number of pool method calls made so far
  history,        \* the calls made so far, in order, each with its return
                  \* value and the usage map it left (kept by SpecHist,
                  \* SpecDetect and SpecPool only)
  driver,         \* this.driver: "null", or "up" for a WebDriver object
  windows,        \* the window handles of the browser behind this.driver, in
                  \* the order getAllWindowHandles lists them; empty when the
                  \* browser has quit
  focus,          \* the window the browser's commands act on (switchTo)
  tabs,           \* this.tabs: Map tabId -> TabInfo, in insertion order
  maxTabs,        \* this.maxTabs
  jobs,           \* per job: where it is in getTab, its locals, what it holds
  closers,        \* the closeTab calls releaseTab started and did not await
  nextTab,        \* tab ids drawn so far (randomBytes: every id is new)
  cleanupTimer,   \* this.cleanupTimer: "set" while the interval of the sweep
                  \* is scheduled, "null" once it has been cleared
  cleanup,        \* the call of closeBrowser made by SeleniumRankTracker.cleanup:
                  \* where it is, and the outcome of the quit it awaits
  browserPool,    \* the keys of this.browserPool of the Playwright
                  \* DriverManager (src/services/driverManager.ts)
  liveBrowsers,   \* the browsers launched by getPage and not closed
  checks,         \* per job of the Playwright tracker: where its
                  \* checkKeywordRank call is, its browserKey, its page
  job,            \* the locals of one SeleniumRankTracker.processJob call
  run             \* the locals of one processMultipleKeywords call and the
                  \* state of the processJob promises it started

poolVars == <<proxies, proxyUsage, currentIndex, options, result, calls, history>>
tabVars == <<driver, windows, focus, tabs, maxTabs, jobs, closers, nextTab,
            cleanupTimer, cleanup>>
trackerVars == <<browserPool, liveBrowsers, checks, job, run>>
vars == <<proxies, proxyUsage, currentIndex, options, now, result, calls, history,
          driver, windows, focus, tabs, maxTabs, jobs, closers, nextTab,
          cleanupTimer, cleanup, browserPool, liveBrowsers, checks, job, run>>

\* ----------------------------------------------------------------- helpers
Min(S) == CHOOSE x \in S : \A y \in S : x <= y

\* Array.prototype.findIndex: first index whose id matches, 0 when none
FindIndex(ps, id) ==
  IF \E k \in 1..Len(ps) : ps[k].id = id
    THEN Min({k \in 1..Len(ps) : ps[k].id = id})
    ELSE 0

\* Array.prototype.splice(index, 1)
Splice(ps, k) == [j \in 1..(Len(ps) - 1) |-> IF j < k THEN ps[j] ELSE ps[j + 1]]

\* the Proxy object a usage record points to (usage.proxy)
Deref(ps, ref) == ps[ref]

\* a window that still counts a use made exactly one window ago
InWindowInclusive(u, t) == u.lastUsed >= t - RateWindow

\* lastUsed > oneMinuteAgo
InWindow(u, t) == u.lastUsed > t - RateWindow

FreshUsage(ref) ==
  [proxy |-> ref, lastUsed |-> 0, usageCount |-> 0, cooldownUntil |-> 0,
   consecutiveDetections |-> 0]

\* Map.set: insert or overwrite
MapSet(m, k, v) == [i \in (DOMAIN m) \cup {k} |-> IF i = k THEN v ELSE m[i]]
\* Map.delete
MapDelete(m, k) == [i \in (DOMAIN m) \ {k} |-> m[i]]

\* ------------------------------------------------- the tab pool: its state
DefaultMaxTabs == 10      \* "constructor(maxTabs: number = 10)"

\* the jobs in flight (processJob calls running at the same time)
Jobs == {"j1", "j2"}
\* the proxyConfig argument of getTab: null, a Proxy whose id is "default",
\* a Proxy with another id
TabArgs == {"null", "default", "a"}
\* configured maxTabs: a ceiling of one tab, of two
MaxTabsValues == {1, 2}

NoWindow == 0
NoTab == 0
\* a job that is not inside a call and holds nothing.  pc: where the job is;
\* arg: the proxyConfig of its getTab call; tabId, handle: the locals tabId
\* and newHandle of getTab (tabId is also the id the job was given); ok: the
\* outcome of the command it awaits; ret: where initializeBrowser returns to;
\* err: why its latest getTab call was rejected; nav: the window that the
\* driver.get of the job's checkKeywordRank loaded the search page in ("own":
\* the job's tab, "foreign": a tab another job holds, "stray": another window)
IdleJob == [pc |-> "idle", arg |-> "null", tabId |-> NoTab, handle |-> NoWindow,
            ok |-> TRUE, ret |-> "find", err |-> "none", nav |-> "none"]

\* no call of closeBrowser by the tracker's cleanup so far
NoCleanup == [pc |-> "none", ok |-> TRUE]

\* new DriverManager(m): no browser, no tabs, and startTabCleanup has set the
\* interval of the sweep
InitDriverManager(m) ==
  /\ cleanupTimer = "set"
  /\ cleanup = NoCleanup
  /\ driver = "null"
  /\ windows = << >>
  /\ focus = NoWindow
  /\ tabs = << >>
  /\ maxTabs = m
  /\ jobs = [j \in Jobs |-> IdleJob]
  /\ closers = << >>
  /\ nextTab = 0

\* --------------------------------------------------- the trackers: their state
\* the jobs of the Playwright tracker in flight (RankTracker.processJob calls)
PageSlots == {"s1", "s2"}
\* browserKey: "default" without a proxy, "proxy_<id>" with one
BrowserKeys == {"default", "proxy_a"}

\* a job of the Playwright tracker outside checkKeywordRank.  pc: where the
\* call is; key: its browserKey; driver: whether its local driver holds a page
IdleAttempt == [pc |-> "idle", key |-> "default", driver |-> FALSE]

\* error.message, as the words that make it up (includes() is case-sensitive)
NoMessage == << >>
NoThrow == [cause |-> "none", message |-> NoMessage]

\* the locals of processJob, with the two things it reads from outside:
\* hasPool (this.proxyManager is set) and max (CONFIG.MAX_RETRIES).
\* proxyConfig and usedProxyId hold ids; wait is waitTime; thrown is the error
\* on its way to the catch block; stats are the lines appended to the stats
\* file; sessions counts the getTab calls of the attempt in progress.  No
\* processJob call is running:
NoJob ==
  [pc |-> "none", hasPool |-> FALSE, max |-> 0, retries |-> 0,
   errors |-> << >>, result |-> None, usedProxyId |-> "none",
   proxyConfig |-> "null", wait |-> 0, thrown |-> NoThrow, stats |-> << >>,
   sessions |-> 0]

\* Promise.race(activeJobs.values()): the promises raced, and how the race
\* settled ("none": no race is awaited)
NoRace == [on |-> {}, state |-> "none"]

\* the locals of processMultipleKeywords: n is keywords.length, max is
\* this.maxConcurrentTabs; activeJobs holds the k of the jobIds `job_${k}`;
\* results holds, per result pushed, the k of its job; started lists the
\* processJob calls made; status is the state of each job's processJob promise.
\* No processMultipleKeywords call is running:
NoRun ==
  [pc |-> "none", n |-> 0, max |-> 0, keywordIndex |-> 0, activeJobs |-> {},
   results |-> << >>, started |-> << >>, status |-> << >>, race |-> NoRace]

\* new RankTracker() with its new DriverManager(): empty pools, no browser;
\* and no processJob, no processMultipleKeywords call of the Selenium tracker
InitTrackers ==
  /\ browserPool = {}
  /\ liveBrowsers = 0
  /\ checks = [s \in PageSlots |-> IdleAttempt]
  /\ job = NoJob
  /\ run = NoRun

\* -------------------------------------------------------------------- init
Init ==
  /\ proxies = << >>
  /\ proxyUsage = [i \in {} |-> 0]
  /\ currentIndex = 0
  /\ options \in [requestsPerMinute : RequestsPerMinute,
                  cooldownPeriod : CooldownPeriods,
                  rotationStrategy : Strategies]
  \* Date.now() is far more than one window past the epoch, so the initial
  \* lastUsed = 0 is outside the window and cooldownUntil = 0 is in the past
  /\ now = RateWindow
  /\ result = NoResult
  /\ calls = 0
  /\ history = << >>
  /\ InitDriverManager(DefaultMaxTabs)
  /\ InitTrackers

\* --------------------------------------------------------------- addProxy
AddProxy(id, active) ==
  /\ Len(proxies) < MaxProxies
  /\ proxies' = Append(proxies, [id |-> id, isActive |-> active])
  /\ proxyUsage' = MapSet(proxyUsage, id, FreshUsage(Len(proxies) + 1))
  /\ result' = NoResult
  /\ UNCHANGED <<currentIndex, options, now>>

\* ------------------------------------------------------------ removeProxy
\* the objects behind the spliced position move down by one, and the
\* references to them with them
Shift(u, k) ==
  [i \in DOMAIN u |-> IF u[i].proxy > k THEN [u[i] EXCEPT !.proxy = u[i].proxy - 1]
                                         ELSE u[i]]

RemoveProxy(id) ==
  LET index == FindIndex(proxies, id) IN
  /\ IF index # 0
       THEN /\ proxies' = Splice(proxies, index)
            /\ proxyUsage' = Shift(MapDelete(proxyUsage, id), index)
                 ELSE UNCHANGED <<proxies, proxyUsage>>
  /\ result' = NoResult
  /\ UNCHANGED <<currentIndex, options, now>>

\* ------------------------------------------- deactivateProxy / reactivateProxy
SetActive(ps, id, flag) ==
  LET index == FindIndex(ps, id) IN
  IF index # 0 THEN [ps EXCEPT ![index].isActive = flag] ELSE ps

\* a deactivation done as a removal followed by a fresh registration: the
\* usage history of the resource is lost
DeactivateDropsUsage(id) ==
  /\ proxies' = SetActive(proxies, id, FALSE)
  /\ proxyUsage' = IF FindIndex(proxies, id) # 0
                     THEN MapSet(proxyUsage, id, FreshUsage(FindIndex(proxies, id)))
                     ELSE proxyUsage
  /\ result' = NoResult
  /\ UNCHANGED <<currentIndex, options, now>>

DeactivateProxy(id) ==
  /\ proxies' = SetActive(proxies, id, FALSE)
  /\ result' = NoResult
  /\ UNCHANGED <<proxyUsage, currentIndex, options, now>>

ReactivateProxy(id) ==
  /\ proxies' = SetActive(proxies, id, TRUE)
  /\ result' = NoResult
  /\ UNCHANGED <<proxyUsage, currentIndex, options, now>>

\* ----------------------------------------------------------- getNextProxy
\* a filter callback that lets one request too many through (> for >=)
FilterOneOverBudget(p, u, t, opts) ==
  IF ~p.isActive THEN [keep |-> FALSE, usage |-> u]
  ELSE IF p.id \notin DOMAIN u THEN [keep |-> TRUE, usage |-> u]
  ELSE IF u[p.id].cooldownUntil > t THEN [keep |-> FALSE, usage |-> u]
  ELSE IF InWindow(u[p.id], t)
    THEN IF u[p.id].usageCount > opts.requestsPerMinute
           THEN [keep |-> FALSE,
                 usage |-> [u EXCEPT ![p.id].cooldownUntil = t + opts.cooldownPeriod]]
           ELSE [keep |-> TRUE, usage |-> u]
    ELSE [keep |-> TRUE, usage |-> [u EXCEPT ![p.id].usageCount = 0]]

\* the filter callback applied to one Proxy object: whether it is kept, and
\* the usage map after the callback's writes
FilterOne(p, u, t, opts) ==
  IF ~p.isActive THEN [keep |-> FALSE, usage |-> u]
  ELSE IF p.id \notin DOMAIN u THEN [keep |-> TRUE, usage |-> u]
  ELSE IF u[p.id].cooldownUntil > t THEN [keep |-> FALSE, usage |-> u]
  ELSE IF InWindow(u[p.id], t)
    THEN IF u[p.id].usageCount >= opts.requestsPerMinute
           THEN [keep |-> FALSE,
                 usage |-> [u EXCEPT ![p.id].cooldownUntil = t + opts.cooldownPeriod]]
           ELSE [keep |-> TRUE, usage |-> u]
    ELSE [keep |-> TRUE, usage |-> [u EXCEPT ![p.id].usageCount = 0]]

\* this.proxies.filter(...): the callback runs on proxies[k], proxies[k+1], ...
\* in order, each seeing the writes of the earlier ones
RECURSIVE FilterProxies(_, _, _, _, _, _)
FilterProxies(ps, k, avail, u, t, opts) ==
  IF k > Len(ps) THEN [available |-> avail, usage |-> u]
  ELSE LET r == FilterOne(ps[k], u, t, opts) IN
       FilterProxies(ps, k + 1, IF r.keep THEN Append(avail, ps[k]) ELSE avail,
                     r.usage, t, opts)

\* the loop over proxyUsage.values() when nothing is available
NextAvailableIn(ps, u, t) ==
  LET waits == {u[i].cooldownUntil - t : i \in
                  {j \in DOMAIN u : Deref(ps, u[j].proxy).isActive
                                      /\ u[j].cooldownUntil - t > 0}}
  IN IF waits = {} THEN None ELSE Some(Min(waits))

\* a reduce that lets a later resource win a tie (<= for <)
RECURSIVE LeastUsedLastTie(_, _, _, _)
LeastUsedLastTie(avail, u, k, least) ==
  IF k > Len(avail) THEN least
  ELSE LeastUsedLastTie(avail, u, k + 1,
         IF u[avail[k].id].usageCount <= u[least.id].usageCount
           THEN avail[k] ELSE least)

\* availableProxies.reduce(...) of the least-used strategy
RECURSIVE LeastUsedFrom(_, _, _, _)
LeastUsedFrom(avail, u, k, least) ==
  IF k > Len(avail) THEN least
  ELSE LeastUsedFrom(avail, u, k + 1,
         IF u[avail[k].id].usageCount < u[least.id].usageCount
           THEN avail[k] ELSE least)

\* reading .usageCount of a missing usage record is a TypeError
SelectLeastUsed(avail, u, index) ==
  IF \E k \in 1..Len(avail) : avail[k].id \notin DOMAIN u
    THEN [throws |-> TRUE, proxy |-> NoProxy, index |-> index]
    ELSE [throws |-> FALSE, proxy |-> LeastUsedFrom(avail, u, 1, avail[1]),
          index |-> index]

\* the do/while of the round-robin strategy; index is 0-based as in the code
RECURSIVE RoundRobinFrom(_, _, _, _)
RoundRobinFrom(ps, avail, index, attempts) ==
  LET next == (index + 1) % Len(ps) IN
  IF \E j \in 1..Len(avail) : avail[j].id = ps[next + 1].id
    THEN [throws |-> FALSE, proxy |-> ps[next + 1], index |-> next]
    ELSE IF attempts + 1 < Len(ps)
      THEN RoundRobinFrom(ps, avail, next, attempts + 1)
      ELSE [throws |-> FALSE, proxy |-> avail[1], index |-> index]

SelectRoundRobin(ps, avail, index) == RoundRobinFrom(ps, avail, index, 0)

SelectProxy(ps, avail, u, index, opts) ==
  IF opts.rotationStrategy = "least-used"
    THEN SelectLeastUsed(avail, u, index)
    ELSE SelectRoundRobin(ps, avail, index)

\* a selection that leaves the count to a later markProxyUsed
ReserveWithoutCount(u, id, t) == [u EXCEPT ![id].lastUsed = t]

\* usage.lastUsed = now; usage.usageCount++
Reserve(u, id, t) ==
  [u EXCEPT ![id].lastUsed = t, ![id].usageCount = u[id].usageCount + 1]

Thrown == [kind |-> "throw", proxy |-> NoProxy, nextAvailableIn |-> None]

GetNextProxy ==
  LET f == FilterProxies(proxies, 1, << >>, proxyUsage, now, options)
      sel == SelectProxy(proxies, f.available, f.usage, currentIndex, options)
  IN
  /\ IF Len(f.available) = 0
       THEN /\ proxyUsage' = f.usage
            /\ currentIndex' = currentIndex
            /\ result' = [kind |-> "null", proxy |-> NoProxy,
                          nextAvailableIn |-> NextAvailableIn(proxies, f.usage, now)]
       ELSE IF sel.throws \/ sel.proxy.id \notin DOMAIN f.usage
         THEN /\ proxyUsage' = f.usage
              /\ currentIndex' = sel.index
              /\ result' = Thrown
         ELSE /\ proxyUsage' = Reserve(f.usage, sel.proxy.id, now)
              /\ currentIndex' = sel.index
              /\ result' = [kind |-> "proxy", proxy |-> sel.proxy,
                            nextAvailableIn |-> None]
  /\ UNCHANGED <<proxies, options, now>>

\* ---------------------------------------------------------- markProxyUsed
ResetConsecutiveDetections(u, id) ==
  IF id \in DOMAIN u THEN [u EXCEPT ![id].consecutiveDetections = 0] ELSE u

\* a markProxyUsed that forgets to reset the detection counter
MarkUsedKeepsDetections(u, id, t) ==
  IF id \in DOMAIN u
    THEN [u EXCEPT ![id].usageCount = u[id].usageCount + 1, ![id].lastUsed = t]
    ELSE u

MarkUsed(u, id, t) ==
  IF id \in DOMAIN u
    THEN ResetConsecutiveDetections(
           [u EXCEPT ![id].usageCount = u[id].usageCount + 1,
                     ![id].lastUsed = t], id)
    ELSE u

MarkProxyUsed(id) ==
  /\ proxyUsage' = MarkUsed(proxyUsage, id, now)
  /\ result' = NoResult
  /\ UNCHANGED <<proxies, currentIndex, options, now>>

\* ------------------------------------------------------ markProxyDetected
\* period = cooldownPeriod || this.options.cooldownPeriod
BasePeriod(arg, opts) == IF arg # 0 THEN arg ELSE opts.cooldownPeriod

\* a penalty without escalation
PenaltyFlat(period, n) == period

\* if (consecutiveDetections >= 2) period = period * consecutiveDetections
Penalty(period, n) == IF n >= 2 THEN period * n ELSE period

MarkDetected(u, id, arg, t, opts) ==
  IF id \in DOMAIN u
    THEN LET n == u[id].consecutiveDetections + 1 IN
         [u EXCEPT ![id].consecutiveDetections = n,
                   ![id].cooldownUntil = t + Penalty(BasePeriod(arg, opts), n)]
    ELSE u

MarkProxyDetected(id, arg) ==
  /\ proxyUsage' = MarkDetected(proxyUsage, id, arg, now, options)
  /\ result' = NoResult
  /\ UNCHANGED <<proxies, currentIndex, options, now>>

\* ------------------------------------------------------------------ clock
Tick ==
  /\ now < RateWindow + MaxTicks * HalfWindow
  /\ now' = now + HalfWindow
  /\ UNCHANGED <<proxies, proxyUsage, currentIndex, options, result>>

\* one call of a public method of the pool, by any job.  The ids are names
\* only and an empty pool keeps no trace of either, so the resource added to
\* an empty pool is always called "a" (the runs that call it "b" are the same
\* runs with the two names swapped).
Call ==
  \/ \E id \in ProxyIds, active \in BOOLEAN :
       /\ Len(proxies) = 0 => id = "a"
       /\ AddProxy(id, active)
  \/ \E id \in ProxyIds : RemoveProxy(id)
  \/ \E id \in ProxyIds : DeactivateProxy(id)
  \/ \E id \in ProxyIds : ReactivateProxy(id)
  \/ GetNextProxy
  \/ \E id \in ProxyIds : MarkProxyUsed(id)
  \/ \E id \in ProxyIds, arg \in CooldownArgs : MarkProxyDetected(id, arg)

Next ==
  \/ calls < MaxCalls /\ calls' = calls + 1 /\ Call /\ UNCHANGED history
       /\ UNCHANGED <<tabVars, trackerVars>>
  \/ Tick /\ UNCHANGED <<calls, history>> /\ UNCHANGED <<tabVars, trackerVars>>

Spec == Init /\ [][Next]_vars

\* ------------------------------------------------------ recorded scenarios
\* A pool that holds one active resource (the constructor followed by one
\* addProxy), driven by the calls a job makes on it (processJob: getNextProxy,
\* then markProxyUsed or markProxyDetected), every call recorded in history.
TheProxy == "a"

InitHist ==
  /\ proxies = <<[id |-> TheProxy, isActive |-> TRUE]>>
  /\ proxyUsage = MapSet([i \in {} |-> 0], TheProxy, FreshUsage(1))
  /\ currentIndex = 0
  /\ options \in [requestsPerMinute : RequestsPerMinute,
                  cooldownPeriod : CooldownPeriods,
                  rotationStrategy : Strategies]
  /\ now = RateWindow
  /\ result = NoResult
  /\ calls = 0
  /\ history = << >>
  /\ InitDriverManager(DefaultMaxTabs)
  /\ InitTrackers

Record(op, id, arg) ==
  /\ Len(history) < MaxHistory
  /\ calls' = calls + 1
  /\ history' = Append(history, [op |-> op, id |-> id, arg |-> arg, t |-> now,
                                 ret |-> result', usage |-> proxyUsage',
                                 pool |-> proxies', index |-> currentIndex'])
  /\ UNCHANGED <<tabVars, trackerVars>>

\* jobs whose requests are never detected: getNextProxy, then markProxyUsed
NextHist ==
  \/ GetNextProxy /\ Record("getNextProxy", TheProxy, 0)
  \/ MarkProxyUsed(TheProxy) /\ Record("markProxyUsed", TheProxy, 0)
  \/ Tick /\ UNCHANGED <<calls, history>> /\ UNCHANGED <<tabVars, trackerVars>>

SpecHist == InitHist /\ [][NextHist]_vars

\* the reports of jobs on the resource they used: markProxyDetected (with or
\* without its cooldownPeriod argument) and markProxyUsed
NextDetect ==
  \/ \E arg \in CooldownArgs :
       MarkProxyDetected(TheProxy, arg) /\ Record("markProxyDetected", TheProxy, arg)
  \/ MarkProxyUsed(TheProxy) /\ Record("markProxyUsed", TheProxy, 0)
  \/ Tick /\ UNCHANGED <<calls, history>> /\ UNCHANGED <<tabVars, trackerVars>>

SpecDetect == InitHist /\ [][NextDetect]_vars

\* A pool of two resources with distinct ids (the constructor followed by
\* addProxies of the configured list), driven by the selections of the jobs
\* and by an administrator who takes resources out of rotation and back.
OtherProxy == "b"

InitialPool == <<[id |-> TheProxy, isActive |-> TRUE],
                 [id |-> OtherProxy, isActive |-> TRUE]>>
InitialPoolUsage ==
  MapSet(MapSet([i \in {} |-> 0], TheProxy, FreshUsage(1)), OtherProxy, FreshUsage(2))

InitPool ==
  /\ proxies = InitialPool
  /\ proxyUsage = InitialPoolUsage
  /\ currentIndex = 0
  /\ options \in [requestsPerMinute : RequestsPerMinute,
                  cooldownPeriod : CooldownPeriods,
                  rotationStrategy : Strategies]
  /\ now = RateWindow
  /\ result = NoResult
  /\ calls = 0
  /\ history = << >>
  /\ InitDriverManager(DefaultMaxTabs)
  /\ InitTrackers

PoolCall ==
  \/ GetNextProxy /\ Record("getNextProxy", "none", 0)
  \/ \E id \in ProxyIds : DeactivateProxy(id) /\ Record("deactivateProxy", id, 0)
  \/ \E id \in ProxyIds : ReactivateProxy(id) /\ Record("reactivateProxy", id, 0)

NextPool ==
  \/ Len(history) < MaxPoolCalls /\ PoolCall
  \/ Tick /\ UNCHANGED <<calls, history>> /\ UNCHANGED <<tabVars, trackerVars>>

SpecPool == InitPool /\ [][NextPool]_vars

\* ---------------------------------------------------- the tab pool: getTab
\* proxyConfig?.id, the id getTab looks for
RequestedId(arg) == IF arg = "null" THEN "undefined" ELSE arg
\* proxyConfig?.id || "default", the id getTab stores
BoundId(arg) == IF arg = "null" THEN "default" ELSE arg

Range(q) == {q[k] : k \in 1..Len(q)}

\* a window handle no window has and nothing remembers: the handle of a
\* window that opens now
Remembered ==
  Range(windows) \cup {focus} \cup {tabs[k].handle : k \in 1..Len(tabs)}
    \cup {jobs[j].handle : j \in Jobs}
    \cup UNION {Range(closers[i].snap) \cup {closers[i].handle} : i \in 1..Len(closers)}
FreshWindow == Min({w \in 1..(Cardinality(Remembered) + 1) : w \notin Remembered})

\* the browser takes commands: this.driver is set and its session is open (a
\* browser that has quit, or has no window left, has no session)
Alive == driver = "up" /\ windows # << >>

\* for (const [tabId, tabInfo] of this.tabs.entries()): the first tab with
\* tabInfo.proxyId === proxyConfig?.id && !tabInfo.isActive, 0 when none
FindIdleTab(ts, id) ==
  IF \E k \in 1..Len(ts) : ts[k].proxyId = id /\ ~ts[k].isActive
    THEN Min({k \in 1..Len(ts) : ts[k].proxyId = id /\ ~ts[k].isActive})
    ELSE 0

\* this.tabs.get(tabId): the position of the tab, 0 when it is not in the map
TabIndex(ts, tabId) ==
  IF \E k \in 1..Len(ts) : ts[k].id = tabId
    THEN Min({k \in 1..Len(ts) : ts[k].id = tabId})
    ELSE 0

\* this.tabs.delete(tabId)
TabDelete(ts, tabId) == SelectSeq(ts, LAMBDA t : t.id # tabId)

\* the TabInfo getTab registers
NewTab(tabId, handle, arg, t) ==
  [id |-> tabId, handle |-> handle, proxyId |-> BoundId(arg), isActive |-> TRUE,
   lastUsed |-> t, createdAt |-> t]

\* the job's getTab call returned { driver, tabId }
Holding(arg, tabId) == [IdleJob EXCEPT !.pc = "holding", !.arg = arg, !.tabId = tabId]
\* the job's getTab call was rejected
Rejected(why) == [IdleJob EXCEPT !.err = why]

\* getTab from the search for an idle tab (line 202) to its next await: the
\* reuse of the tab found, or the window.open of a new one
FindOrCreate(j, arg) ==
  LET k == FindIdleTab(tabs, RequestedId(arg)) IN
  IF k # 0
    THEN /\ tabs' = [tabs EXCEPT ![k].isActive = TRUE, ![k].lastUsed = now]
         \* switchTo().window(tabInfo.handle) is outside the try: when the
         \* handle is not a window of the browser the call is rejected
         /\ IF Alive /\ tabs[k].handle \in Range(windows)
              THEN /\ focus' = tabs[k].handle
                   /\ jobs' = [jobs EXCEPT ![j] = Holding(arg, tabs[k].id)]
              ELSE /\ focus' = focus
                   /\ jobs' = [jobs EXCEPT ![j] =
                                 Rejected(IF Alive THEN "probe" ELSE "session")]
         /\ UNCHANGED <<driver, windows, maxTabs, cleanupTimer, cleanup, closers, nextTab>>
    ELSE /\ nextTab < MaxTabIds
         /\ nextTab' = nextTab + 1
         /\ IF Alive
              THEN /\ windows' = Append(windows, FreshWindow)
                   /\ jobs' = [jobs EXCEPT ![j] =
                                 [IdleJob EXCEPT !.pc = "opened", !.arg = arg,
                                                 !.tabId = nextTab + 1]]
              ELSE /\ jobs' = [jobs EXCEPT ![j] = Rejected("session")]
                   /\ UNCHANGED windows
         /\ UNCHANGED <<driver, focus, tabs, maxTabs, cleanupTimer, cleanup, closers>>

\* a job calls getTab(proxyConfig).  Without a browser it starts one
\* (initializeBrowser, up to the await of build()); with one it goes straight
\* to the search
GetTab(j, arg) ==
  /\ jobs[j].pc \in {"idle", "released"}
  /\ IF driver = "null"
       THEN /\ jobs' = [jobs EXCEPT ![j] =
                          [IdleJob EXCEPT !.pc = "build", !.arg = arg, !.ret = "find"]]
            /\ UNCHANGED <<driver, windows, focus, tabs, maxTabs, cleanupTimer, cleanup, closers, nextTab>>
       ELSE FindOrCreate(j, arg)

\* this.driver = await new Builder()...build(): the new browser has one
\* window; a browser this.driver referred to is no longer referred to
BuildResume(j) ==
  /\ jobs[j].pc = "build"
  /\ driver' = "up"
  /\ windows' = <<FreshWindow>>
  /\ focus' = FreshWindow
  /\ jobs' = [jobs EXCEPT ![j].pc = "ready"]
  /\ UNCHANGED <<tabs, maxTabs, cleanupTimer, cleanup, closers, nextTab>>

\* this.tabs.set(tabId, {...}) and the return of getTab's creation path
RegisterTab(j) ==
  /\ tabs' = Append(tabs, NewTab(jobs[j].tabId, jobs[j].handle, jobs[j].arg, now))
  /\ jobs' = [jobs EXCEPT ![j] = Holding(jobs[j].arg, jobs[j].tabId)]

\* initializeBrowser has returned: to getTab's search (line 202) when getTab
\* called it, to the tabs.set of line 248 when setProxy did
ReadyResume(j) ==
  /\ jobs[j].pc = "ready"
  /\ IF jobs[j].ret = "find"
       THEN FindOrCreate(j, jobs[j].arg)
       ELSE /\ RegisterTab(j)
            /\ UNCHANGED <<driver, windows, focus, maxTabs, cleanupTimer, cleanup, closers, nextTab>>

\* after window.open: getAllWindowHandles, newHandle is the last one
OpenResume(j) ==
  /\ jobs[j].pc = "opened"
  /\ jobs' = [jobs EXCEPT ![j] =
                IF Alive THEN [jobs[j] EXCEPT !.pc = "handles",
                                              !.handle = windows[Len(windows)]]
                         ELSE Rejected("session")]
  /\ UNCHANGED <<driver, windows, focus, tabs, maxTabs, cleanupTimer, cleanup, closers, nextTab>>

\* switchTo().window(newHandle)
HandlesResume(j) ==
  /\ jobs[j].pc = "handles"
  /\ IF Alive /\ jobs[j].handle \in Range(windows)
       THEN /\ focus' = jobs[j].handle
            /\ jobs' = [jobs EXCEPT ![j].pc = "switched"]
       ELSE /\ focus' = focus
            /\ jobs' = [jobs EXCEPT ![j] = Rejected("session")]
  /\ UNCHANGED <<driver, windows, tabs, maxTabs, cleanupTimer, cleanup, closers, nextTab>>

\* if (proxyConfig?.id !== "default") await this.setProxy(proxyConfig):
\* setProxy calls closeBrowser, which quits the browser when there is one
\* (quit() of a browser that has quit already may be rejected; the catch
\* swallows it).  With the id "default" the tab is registered at once
SwitchedResume(j) ==
  /\ jobs[j].pc = "switched"
  /\ IF jobs[j].arg = "default"
       THEN /\ RegisterTab(j)
            /\ UNCHANGED <<driver, windows, focus, maxTabs, cleanupTimer, cleanup, closers, nextTab>>
       ELSE IF driver = "up"
         THEN /\ \E ok \in BOOLEAN :
                   /\ windows # << >> => ok
                   /\ jobs' = [jobs EXCEPT ![j].pc = "quit", ![j].ok = ok]
              /\ cleanupTimer' = "null"
              /\ windows' = << >>
              /\ focus' = NoWindow
              /\ UNCHANGED <<driver, tabs, maxTabs, cleanup, closers, nextTab>>
         ELSE /\ tabs' = << >>
              /\ jobs' = [jobs EXCEPT ![j].pc = "build", ![j].ret = "set"]
              /\ cleanupTimer' = "null"
              /\ UNCHANGED <<driver, windows, focus, maxTabs, cleanup, closers, nextTab>>

\* after await this.driver.quit(): this.driver = null; this.tabs.clear();
\* then setProxy's own this.tabs.clear() and initializeBrowser, which returns
\* at once when this.driver is set
QuitResume(j) ==
  /\ jobs[j].pc = "quit"
  /\ IF jobs[j].ok
       THEN /\ driver' = "null"
            /\ windows' = << >>
            /\ focus' = NoWindow
            /\ tabs' = << >>
            /\ jobs' = [jobs EXCEPT ![j].pc = "build", ![j].ret = "set"]
       ELSE /\ IF driver = "up"
                 THEN /\ tabs' = <<NewTab(jobs[j].tabId, jobs[j].handle, jobs[j].arg, now)>>
                      /\ jobs' = [jobs EXCEPT ![j] = Holding(jobs[j].arg, jobs[j].tabId)]
                 ELSE /\ tabs' = << >>
                      /\ jobs' = [jobs EXCEPT ![j].pc = "build", ![j].ret = "set",
                                              ![j].ok = TRUE]
            /\ UNCHANGED <<driver, windows, focus>>
  /\ UNCHANGED <<maxTabs, cleanupTimer, cleanup, closers, nextTab>>

\* ------------------------------------------- the tab pool: releaseTab, closeTab
\* if (this.tabs.size > 1) this.closeTab(tabId)
ReleaseCloses(n) == n > 1

\* a job calls releaseTab(tabId) with the id getTab gave it: when it holds the
\* tab, and once more after it has released it.  closeTab is not awaited: it
\* runs up to its first await (getAllWindowHandles) inside this step and goes
\* on as a task of its own
ReleaseTab(j) ==
  LET k == TabIndex(tabs, jobs[j].tabId) IN
  /\ jobs[j].pc \in {"holding", "released"}
  \* a release that starts a closeTab task waits for a free place among the
  \* MaxClosers tasks the model keeps
  /\ (k # 0 /\ ReleaseCloses(Len(tabs)) /\ driver # "null")
       => Len(closers) < MaxClosers
  /\ jobs' = [jobs EXCEPT ![j] =
                IF jobs[j].pc = "holding"
                  THEN [IdleJob EXCEPT !.pc = "released", !.tabId = jobs[j].tabId]
                  ELSE IdleJob]
  /\ IF k = 0
       THEN UNCHANGED <<tabs, closers>>
       ELSE /\ tabs' = [tabs EXCEPT ![k].isActive = FALSE, ![k].lastUsed = now]
            /\ closers' =
                 IF ReleaseCloses(Len(tabs)) /\ driver # "null"
                   THEN Append(closers,
                               [tab |-> tabs[k].id, handle |-> tabs[k].handle,
                                pc |-> IF Alive THEN "handles" ELSE "delete",
                                snap |-> windows])
                   ELSE closers
  /\ UNCHANGED <<driver, windows, focus, maxTabs, cleanupTimer, cleanup, nextTab>>

RemoveAt(q, i) == [k \in 1..(Len(q) - 1) |-> IF k < i THEN q[k] ELSE q[k + 1]]

\* one step of a closeTab task, from one await to the next.  Every failure of
\* a command lands in the catch, which deletes the tab from the map, as the
\* end of the try does
CloseStep(i) ==
  LET c == closers[i]
      to(pc) == closers' = [closers EXCEPT ![i].pc = pc]
  IN
  /\ i \in 1..Len(closers)
  /\ CASE c.pc = "handles" ->
            \* if (currentHandles.includes(tabInfo.handle)) switchTo().window(it)
            IF c.handle \in Range(c.snap)
              THEN IF Alive /\ c.handle \in Range(windows)
                     THEN focus' = c.handle /\ to("switched")
                                            /\ UNCHANGED <<windows, tabs>>
                     ELSE to("delete") /\ UNCHANGED <<windows, focus, tabs>>
              ELSE /\ tabs' = TabDelete(tabs, c.tab)
                   /\ closers' = RemoveAt(closers, i)
                   /\ UNCHANGED <<windows, focus>>
       [] c.pc = "switched" ->
            \* this.driver.close() closes the window the browser is on
            IF Alive /\ focus \in Range(windows)
              THEN /\ windows' = SelectSeq(windows, LAMBDA w : w # focus)
                   /\ to("closed")
                   /\ UNCHANGED <<focus, tabs>>
              ELSE to("delete") /\ UNCHANGED <<windows, focus, tabs>>
       [] c.pc = "closed" ->
            \* remainingHandles = getAllWindowHandles()
            IF Alive
              THEN /\ closers' = [closers EXCEPT ![i].pc = "remaining",
                                                 ![i].snap = windows]
                   /\ UNCHANGED <<windows, focus, tabs>>
              ELSE to("delete") /\ UNCHANGED <<windows, focus, tabs>>
       [] c.pc = "remaining" ->
            \* switchTo().window(remainingHandles[0])
            IF Alive /\ c.snap[1] \in Range(windows)
              THEN focus' = c.snap[1] /\ to("delete") /\ UNCHANGED <<windows, tabs>>
              ELSE to("delete") /\ UNCHANGED <<windows, focus, tabs>>
       [] c.pc = "delete" ->
            \* this.tabs.delete(tabId)
            /\ tabs' = TabDelete(tabs, c.tab)
            /\ closers' = RemoveAt(closers, i)
            /\ UNCHANGED <<windows, focus>>
  /\ UNCHANGED <<driver, maxTabs, cleanupTimer, cleanup, jobs, nextTab>>

\* ------------------------------------------- the tab pool: the job's driver.get
\* the window in which a command of job j on the shared driver acts: the
\* driver's current window
NavTarget(j) ==
  LET k == TabIndex(tabs, jobs[j].tabId) IN
  IF ~Alive \/ focus \notin Range(windows) THEN "rejected"
  ELSE IF k # 0 /\ tabs[k].handle = focus THEN "own"
  ELSE IF \E i \in Jobs \ {j} :
            /\ jobs[i].pc = "holding"
            /\ TabIndex(tabs, jobs[i].tabId) # 0
            /\ tabs[TabIndex(tabs, jobs[i].tabId)].handle = focus
    THEN "foreign"
  ELSE "stray"

\* checkKeywordRank of job j, after getTab and randomDelay: driver.get(searchUrl)
\* on the driver getTab returned, which is the one driver of the manager
Navigate(j) ==
  /\ jobs[j].pc = "holding"
  /\ jobs[j].nav = "none"
  /\ jobs' = [jobs EXCEPT ![j].nav = NavTarget(j)]
  /\ UNCHANGED <<driver, windows, focus, tabs, maxTabs, cleanupTimer, cleanup,
                 closers, nextTab>>

\* ---------------------------------------------- the tab pool: the timer sweep
TabTTL == 120000              \* "tabTTL: number = 2 * 60 * 1000"
TabCleanupInterval == 300000  \* "tabCleanupInterval: number = 300000"

\* shouldClose of cleanupInactiveTabs; blank: the tab shows about:blank
ShouldClose(tab, blank, t) ==
  /\ ~tab.isActive
  /\ \/ t - tab.lastUsed > TabCleanupInterval
     \/ t - tab.createdAt > TabTTL
     \/ blank

\* a sorts before b in the list of inactive tabs (sort by lastUsed; the sort
\* is stable, so tabs with the same lastUsed stay in map order)
Older(ts, a, b) ==
  \/ ts[a].lastUsed < ts[b].lastUsed
  \/ ts[a].lastUsed = ts[b].lastUsed /\ a < b

\* inactiveTabs.slice(0, inactiveTabs.length - maxTabs): the positions in ts
\* of the excess inactive tabs, none when there are at most m of them
ExcessTabs(ts, m) ==
  LET idle == {k \in 1..Len(ts) : ~ts[k].isActive} IN
  {k \in idle :
     Cardinality({i \in idle : Older(ts, i, k)}) < Cardinality(idle) - m}

\* the callback of the interval, cleanupInactiveTabs.  The model takes one
\* run of it as one step: the commands it awaits (getAllWindowHandles, then
\* for every tab switchTo and getCurrentUrl, then the closeTab calls) are not
\* interleaved with the steps of the jobs.  Without a browser it returns at
\* once; when the browser has no session its first command is rejected and
\* the run ends there
CleanupInactiveTabs ==
  /\ cleanupTimer = "set"
  /\ IF ~Alive
       THEN UNCHANGED <<windows, focus, tabs>>
       ELSE \E blanks \in SUBSET {k \in 1..Len(tabs) : tabs[k].handle \in Range(windows)} :
              LET \* tabs whose window is gone are forgotten
                  open == {k \in 1..Len(tabs) : tabs[k].handle \in Range(windows)}
                  toClose == {k \in open : ShouldClose(tabs[k], k \in blanks, now)}
                  kept == SelectSeq(tabs, LAMBDA t :
                            /\ t.handle \in Range(windows)
                            /\ \A k \in toClose : tabs[k].id # t.id)
                  excess == ExcessTabs(kept, maxTabs)
                  closed == {tabs[k].handle : k \in toClose}
                              \cup {kept[k].handle : k \in excess}
                  left == SelectSeq(windows, LAMBDA w : w \notin closed)
              IN /\ tabs' = SelectSeq(kept, LAMBDA t :
                              \A k \in excess : kept[k].id # t.id)
                 /\ windows' = left
                 \* closeTab ends on remainingHandles[0]; without a closeTab
                 \* the browser stays on the last tab the loop switched to
                 /\ focus' = IF closed # {}
                               THEN IF left # << >> THEN left[1] ELSE NoWindow
                               ELSE IF open # {}
                                 THEN tabs[CHOOSE k \in open : \A i \in open : i <= k].handle
                                 ELSE focus
  /\ UNCHANGED <<driver, maxTabs, jobs, closers, nextTab, cleanupTimer, cleanup>>

\* -------------------------------------- the tab pool: closeBrowser by cleanup
\* SeleniumRankTracker.cleanup calls closeBrowser: the interval is cleared and,
\* when there is a browser, quit() is issued and awaited
CloseBrowser ==
  /\ cleanup.pc = "none"
  /\ cleanupTimer' = "null"
  /\ IF driver = "up"
       THEN /\ \E ok \in BOOLEAN :
                 /\ windows # << >> => ok
                 /\ cleanup' = [pc |-> "quit", ok |-> ok]
            /\ windows' = << >>
            /\ focus' = NoWindow
       ELSE /\ cleanup' = [pc |-> "returned", ok |-> TRUE]
            /\ UNCHANGED <<windows, focus>>
  /\ UNCHANGED <<driver, tabs, maxTabs, jobs, closers, nextTab>>

\* after await this.driver.quit(): this.driver = null and this.tabs.clear()
\* when it succeeded, the catch (a warning) when it was rejected; closeBrowser
\* returns
CloseBrowserResume ==
  /\ cleanup.pc = "quit"
  /\ cleanup' = [cleanup EXCEPT !.pc = "returned"]
  /\ IF cleanup.ok
       THEN /\ driver' = "null"
            /\ windows' = << >>
            /\ focus' = NoWindow
            /\ tabs' = << >>
       ELSE UNCHANGED <<driver, windows, focus, tabs>>
  /\ UNCHANGED <<maxTabs, jobs, closers, nextTab, cleanupTimer>>

\* ------------------------------------------------ the tab pool: its behaviours
DefaultCooldownPeriod == 300000

\* a tracker whose jobs run without a proxy pool or with one that is not of
\* interest here: the pool stays as the constructor leaves it
InitTabs ==
  /\ proxies = << >>
  /\ proxyUsage = [i \in {} |-> 0]
  /\ currentIndex = 0
  /\ options = [requestsPerMinute |-> DefaultRequestsPerMinute,
                cooldownPeriod |-> DefaultCooldownPeriod,
                rotationStrategy |-> "round-robin"]
  /\ now = RateWindow
  /\ result = NoResult
  /\ calls = 0
  /\ history = << >>
  /\ \E m \in MaxTabsValues : InitDriverManager(m)
  /\ InitTrackers

\* the steps of one job: its getTab call from await to await, its releaseTab
GetTabStep(j) ==
  \/ \E arg \in TabArgs : GetTab(j, arg)
  \/ BuildResume(j)
  \/ ReadyResume(j)
  \/ OpenResume(j)
  \/ HandlesResume(j)
  \/ SwitchedResume(j)
  \/ QuitResume(j)

NextTabs ==
  \/ \E j \in Jobs : GetTabStep(j) /\ UNCHANGED <<poolVars, now, trackerVars>>
  \/ \E j \in Jobs : Navigate(j) /\ UNCHANGED <<poolVars, now, trackerVars>>
  \/ \E j \in Jobs : ReleaseTab(j) /\ UNCHANGED <<poolVars, now, trackerVars>>
  \/ \E i \in 1..Len(closers) : CloseStep(i) /\ UNCHANGED <<poolVars, now, trackerVars>>
  \/ CleanupInactiveTabs /\ UNCHANGED <<poolVars, now, trackerVars>>
  \/ CloseBrowser /\ UNCHANGED <<poolVars, now, trackerVars>>
  \/ CloseBrowserResume /\ UNCHANGED <<poolVars, now, trackerVars>>

SpecTabs == InitTabs /\ [][NextTabs]_vars

\* ------------------------------- the Playwright tracker: getPage, closeBrowser
\* RankTracker.checkKeywordRank (src/rankTracker.ts, lines 785-1071) and the
\* DriverManager of src/services/driverManager.ts.  Each await is a step.

\* checkKeywordRank is entered: driver = null, getPage is called and raced
\* against the 60 s timer.  key is the browserKey the finally block computes
StartCheck(s, key) ==
  /\ checks[s].pc = "idle"
  /\ checks' = [checks EXCEPT ![s] = [pc |-> "getPage", key |-> key,
                                       driver |-> FALSE]]
  /\ UNCHANGED <<browserPool, liveBrowsers>>

\* the race of getPage with the timer settles.  "page": launchPersistentContext
\* and newPage resolved, a browser runs and driver holds its page.  "rejected":
\* the launch failed, nothing runs.  "timeout": the timer won, driver stays
\* null, and the launch that was still pending completes unobserved.
\* getPage writes none of browserPool, contextPool, browserCreationTimes
GetPage(s, outcome) ==
  /\ checks[s].pc = "getPage"
  /\ outcome # "rejected" => liveBrowsers < MaxBrowsers
  /\ liveBrowsers' = IF outcome = "rejected" THEN liveBrowsers
                                               ELSE liveBrowsers + 1
  /\ checks' = [checks EXCEPT ![s].driver = (outcome = "page"),
                               ![s].pc = IF outcome = "page" THEN "running"
                                                              ELSE "finally"]
  /\ UNCHANGED browserPool

\* the body of the try with a page: navigation, captcha handling, parsing.
\* It returns or throws; either way the finally block is next
RunCheck(s) ==
  /\ checks[s].pc = "running"
  /\ checks' = [checks EXCEPT ![s].pc = "finally"]
  /\ UNCHANGED <<browserPool, liveBrowsers>>

\* DriverManager.closeBrowser(browserKey): closes and forgets what the pools
\* hold under the key, and nothing else
ClosePooled(pool, live, key) ==
  [pool |-> pool \ {key},
   live |-> IF key \in pool THEN live - 1 ELSE live]

\* the finally block: closeBrowser(browserKey) when driver is set
FinallyCheck(s) ==
  /\ checks[s].pc = "finally"
  /\ LET c == IF checks[s].driver
                THEN ClosePooled(browserPool, liveBrowsers, checks[s].key)
                ELSE [pool |-> browserPool, live |-> liveBrowsers] IN
       /\ browserPool' = c.pool
       /\ liveBrowsers' = c.live
  /\ checks' = [checks EXCEPT ![s] = IdleAttempt]

\* the 120 s timer: every key of browserCreationTimes that is stale is closed;
\* the keys of browserCreationTimes are those of browserPool
CleanupStaleBrowsers ==
  /\ \E stale \in SUBSET browserPool :
       /\ browserPool' = browserPool \ stale
       /\ liveBrowsers' = liveBrowsers - Cardinality(stale)
  /\ UNCHANGED checks

\* the proxy pool and the Selenium tab pool take no part: the Playwright
\* tracker runs here without a ProxyManager
InitPage ==
  /\ proxies = << >>
  /\ proxyUsage = [i \in {} |-> 0]
  /\ currentIndex = 0
  /\ options = [requestsPerMinute |-> DefaultRequestsPerMinute,
                cooldownPeriod |-> DefaultCooldownPeriod,
                rotationStrategy |-> "round-robin"]
  /\ now = RateWindow
  /\ result = NoResult
  /\ calls = 0
  /\ history = << >>
  /\ InitDriverManager(DefaultMaxTabs)
  /\ InitTrackers

NextPage ==
  \/ \E s \in PageSlots, key \in BrowserKeys :
       StartCheck(s, key) /\ UNCHANGED <<poolVars, now, tabVars, job, run>>
  \/ \E s \in PageSlots, outcome \in {"page", "rejected", "timeout"} :
       GetPage(s, outcome) /\ UNCHANGED <<poolVars, now, tabVars, job, run>>
  \/ \E s \in PageSlots :
       RunCheck(s) /\ UNCHANGED <<poolVars, now, tabVars, job, run>>
  \/ \E s \in PageSlots :
       FinallyCheck(s) /\ UNCHANGED <<poolVars, now, tabVars, job, run>>
  \/ CleanupStaleBrowsers /\ UNCHANGED <<poolVars, now, tabVars, job, run>>

SpecPage == InitPage /\ [][NextPage]_vars

\* --------------------------------------- the Selenium tracker: processJob
\* SeleniumRankTracker.processJob (src/seleniumRankTracker.ts, lines 48-178),
\* one call.  A step runs from one await to the next.  Date.now() is followed
\* only where a pool reads it: without a ProxyManager nothing the job does
\* depends on the clock.
Infinity == MaxCount + 1
\* CONFIG.MAX_RETRIES: the repository's value, and finite ceilings
MaxRetriesValues == {1, 2, Infinity}
RetryDelayMs == 5000
DefaultWaitTime == 5000
NotFoundRank == 101

\* n++ on a counter
Inc(n) == IF n < MaxCount THEN n + 1 ELSE n
\* errors.push(message)
PushError(errs, m) == IF Len(errs) < MaxCount THEN Append(errs, m) ELSE errs

\* String.prototype.includes, on the words of a message
Includes(msg, w) == \E i \in 1..Len(msg) : msg[i] = w

\* Array.prototype.join
RECURSIVE Join(_, _)
Join(errs, sep) ==
  IF Len(errs) = 0 THEN << >>
  ELSE IF Len(errs) = 1 THEN errs[1]
  ELSE errs[1] \o <<sep>> \o Join(Tail(errs), sep)

\* the messages thrown inside checkKeywordRank, and its catch block's prefix
CaptchaUnsolved == <<"CAPTCHA", "detected", "and couldn't be solved. Retrying.">>
NoDriver == <<"Failed to get driver/tab">>
\* the message of an error raised by the WebDriver library
WebDriverFailure == <<"WebDriverError">>
CheckFailed(m) == <<"Failed to check rank:">> \o m
\* the message of a getTab that rejects because the browser cannot be started
GetTabRejected == <<"Failed to initialize browser:", "WebDriverError">>
\* the message thrown by processJob on rank 0
RankIsZero == <<"Rank is 0 for keyword", "keyword">>
\* the message of the TypeError of a getNextProxy that throws
PoolTypeError == <<"TypeError">>

\* the ways checkKeywordRank rejects once getTab has resolved: shouldRetry of
\* the captcha handler, no driver, a WebDriver command that fails
CheckFailures ==
  {[cause |-> "detection", message |-> CheckFailed(CaptchaUnsolved)],
   [cause |-> "driver", message |-> CheckFailed(NoDriver)],
   [cause |-> "webdriver", message |-> CheckFailed(WebDriverFailure)]}

\* what extractSearchResults returns: per result, whether its url includes
\* the domain
SearchResults == {<< >>} \cup [1..1 -> BOOLEAN] \cup [1..2 -> BOOLEAN]

\* the for loop of checkKeywordRank: the position of the first match, else 0
RankOf(results) ==
  IF \E i \in 1..Len(results) : results[i]
    THEN Min({i \in 1..Len(results) : results[i]})
    ELSE 0

\* the RankResult checkKeywordRank returns: rank 0 becomes 101, "not found"
FoundResult(results) ==
  IF RankOf(results) = 0
    THEN [rank |-> Some(NotFoundRank), url |-> "not found", error |-> None]
    ELSE [rank |-> Some(RankOf(results)), url |-> "url", error |-> None]

\* a give-up result that reports rank 0
GiveUpWithRankZero(errs) ==
  [rank |-> Some(0), url |-> "null", error |-> Some(Join(errs, " | "))]

\* the result built when retries >= MAX_RETRIES
GiveUpResult(errs) ==
  [rank |-> None, url |-> "null", error |-> Some(Join(errs, " | "))]

\* a classifier that looks for "captcha" only
IsDetectionCaptchaOnly(msg) == Includes(msg, "captcha")

\* message.includes("captcha") || message.includes("detected")
IsDetection(msg) == Includes(msg, "captcha") \/ Includes(msg, "detected")

\* proxyResult.nextAvailableIn || 5000
WaitTime(r) ==
  IF r.nextAvailableIn = None \/ r.nextAvailableIn = Some(0)
    THEN DefaultWaitTime
    ELSE CHOOSE w \in r.nextAvailableIn : TRUE

\* the line appended to the stats file
StatsLine(j) ==
  LET r == CHOOSE x \in j.result : TRUE IN
  [rank |-> r.rank, url |-> r.url, retries |-> j.retries,
   errors |-> Join(j.errors, "|"), proxy |-> j.usedProxyId]

JobHorizon == RateWindow + MaxJobTicks * HalfWindow

\* while (!result && retries < CONFIG.MAX_RETRIES)
LoopTest ==
  /\ job.pc = "loop"
  /\ job.hasPool => now < JobHorizon
  /\ job' = [job EXCEPT !.pc = IF job.result = None /\ job.retries < job.max
                                 THEN "try" ELSE "after"]
  /\ UNCHANGED <<poolVars, now>>

\* the head of the try block: proxyConfig = null, and with a pool getNextProxy
Acquire ==
  /\ job.pc = "try"
  /\ IF ~job.hasPool
       THEN /\ job' = [job EXCEPT !.proxyConfig = "null", !.sessions = 0,
                                   !.pc = "check"]
            /\ UNCHANGED <<poolVars, now>>
       ELSE /\ GetNextProxy
            /\ job' = IF result'.kind = "null"
                        THEN [job EXCEPT !.proxyConfig = "null",
                                         !.wait = WaitTime(result'),
                                         !.pc = "wait"]
                      ELSE IF result'.kind = "throw"
                        THEN [job EXCEPT !.proxyConfig = "null",
                                         !.thrown = [cause |-> "pool",
                                                     message |-> PoolTypeError],
                                         !.pc = "catch"]
                      ELSE [job EXCEPT !.proxyConfig = result'.proxy.id,
                                       !.usedProxyId = result'.proxy.id,
                                       !.sessions = 0,
                                       !.pc = "check"]

\* await delay(waitTime); retries++; continue
WaitForProxy ==
  /\ job.pc = "wait"
  /\ now' = now + job.wait
  /\ job' = [job EXCEPT !.retries = Inc(job.retries), !.pc = "loop"]
  /\ UNCHANGED poolVars

\* a try block that leaves out markProxyUsed
ReturnedWithoutMark(rankResult) ==
  IF rankResult.rank = Some(0)
    THEN /\ job' = [job EXCEPT !.result = None,
                               !.thrown = [cause |-> "rank0",
                                           message |-> RankIsZero],
                               !.pc = "catch"]
         /\ UNCHANGED <<poolVars, now>>
    ELSE /\ job' = [job EXCEPT !.result = Some(rankResult), !.pc = "loop"]
         /\ UNCHANGED <<poolVars, now>>

\* the rest of the try block once checkKeywordRank has returned rankResult
Returned(rankResult) ==
  IF rankResult.rank = Some(0)
    THEN /\ job' = [job EXCEPT !.result = None,
                               !.thrown = [cause |-> "rank0",
                                           message |-> RankIsZero],
                               !.pc = "catch"]
         /\ UNCHANGED <<poolVars, now>>
    ELSE /\ job' = [job EXCEPT !.result = Some(rankResult), !.pc = "loop"]
         /\ IF job.hasPool /\ job.proxyConfig # "null"
              THEN MarkProxyUsed(job.proxyConfig)
              ELSE UNCHANGED <<poolVars, now>>

\* checkKeywordRank is entered and awaits its one call of getTab.  The call
\* resolves, or it rejects: then the catch block of checkKeywordRank wraps the
\* message and the call is over
AwaitGetTab ==
  /\ job.pc = "check"
  /\ \/ job' = [job EXCEPT !.sessions = job.sessions + 1, !.pc = "page"]
     \/ job' = [job EXCEPT !.sessions = job.sessions + 1,
                           !.thrown = [cause |-> "session",
                                       message |-> CheckFailed(GetTabRejected)],
                           !.pc = "catch"]
  /\ UNCHANGED <<poolVars, now>>

\* the rest of checkKeywordRank: it rejects, or returns a RankResult
CheckKeywordRank ==
  /\ job.pc = "page"
  /\ \/ \E f \in CheckFailures :
          /\ job' = [job EXCEPT !.thrown = f, !.pc = "catch"]
          /\ UNCHANGED <<poolVars, now>>
     \/ \E results \in SearchResults : Returned(FoundResult(results))

\* the catch block up to its await: errors.push, retries++, markProxyDetected
Catch ==
  /\ job.pc = "catch"
  /\ job' = [job EXCEPT !.errors = PushError(job.errors, job.thrown.message),
                        !.retries = Inc(job.retries),
                        !.thrown = NoThrow,
                        !.pc = "delay"]
  /\ IF job.hasPool /\ job.usedProxyId # "none"
          /\ IsDetection(job.thrown.message)
       THEN MarkProxyDetected(job.usedProxyId, 0)
       ELSE UNCHANGED <<poolVars, now>>

\* await delay(CONFIG.RETRY_DELAY_MS), then the give-up test
RetryDelay ==
  /\ job.pc = "delay"
  /\ now' = IF job.hasPool THEN now + RetryDelayMs ELSE now
  /\ job' = [job EXCEPT !.result = IF job.retries >= job.max
                                     THEN Some(GiveUpResult(job.errors))
                                     ELSE job.result,
                        !.pc = "loop"]
  /\ UNCHANGED poolVars

\* after the loop: the stats line when there is a result, and return result
Finish ==
  /\ job.pc = "after"
  /\ job' = [job EXCEPT !.stats = IF job.result # None
                                    THEN Append(job.stats, StatsLine(job))
                                    ELSE job.stats,
                        !.pc = "done"]
  /\ UNCHANGED <<poolVars, now>>

\* a tracker without a ProxyManager, or with one that holds no resource or
\* one; then processJob is called
InitJob ==
  /\ \E pool \in BOOLEAN, one \in BOOLEAN, max \in MaxRetriesValues :
       /\ ~pool => ~one
       /\ proxies = IF one THEN <<[id |-> TheProxy, isActive |-> TRUE]>>
                           ELSE << >>
       /\ proxyUsage = IF one THEN MapSet([i \in {} |-> 0], TheProxy, FreshUsage(1))
                              ELSE [i \in {} |-> 0]
       /\ job = [NoJob EXCEPT !.pc = "loop", !.hasPool = pool, !.max = max]
  /\ currentIndex = 0
  /\ options \in [requestsPerMinute : RequestsPerMinute,
                  cooldownPeriod : {HalfWindow, DefaultCooldownPeriod},
                  rotationStrategy : {"round-robin"}]
  /\ now = RateWindow
  /\ result = NoResult
  /\ calls = 0
  /\ history = << >>
  /\ InitDriverManager(DefaultMaxTabs)
  /\ browserPool = {}
  /\ liveBrowsers = 0
  /\ checks = [s \in PageSlots |-> IdleAttempt]
  /\ run = NoRun

JobFrame ==
  UNCHANGED <<calls, history, tabVars, browserPool, liveBrowsers, checks, run>>

NextJob ==
  \/ LoopTest /\ JobFrame
  \/ Acquire /\ JobFrame
  \/ WaitForProxy /\ JobFrame
  \/ AwaitGetTab /\ JobFrame
  \/ CheckKeywordRank /\ JobFrame
  \/ Catch /\ JobFrame
  \/ RetryDelay /\ JobFrame
  \/ Finish /\ JobFrame

\* the event loop runs a job that can run
SpecJob == InitJob /\ [][NextJob]_vars /\ WF_vars(NextJob)

\* ------------------------------ the Selenium tracker: processMultipleKeywords
\* SeleniumRankTracker.processMultipleKeywords (src/seleniumRankTracker.ts,
\* lines 284-355), one call.  The dispatcher runs from one await to the next;
\* a processJob promise settles at any time in between.  Job k is the one
\* started for keywords[k]; status[k + 1] is the state of its promise.
Concurrencies == {1, 2}

\* keywordIndex < keywords.length && activeJobs.size < this.maxConcurrentTabs,
\* with <= for the second test
CanStartOneOver(r) ==
  r.keywordIndex < r.n /\ Cardinality(r.activeJobs) <= r.max

\* keywordIndex < keywords.length && activeJobs.size < this.maxConcurrentTabs
CanStart(r) ==
  r.keywordIndex < r.n /\ Cardinality(r.activeJobs) < r.max

\* keywordIndex < keywords.length || activeJobs.size > 0
LoopOn(r) == r.keywordIndex < r.n \/ r.activeJobs # {}

\* a then handler that drops the result
PushNothing(rs, k) == rs

\* results.push(result), in the then handler of job k
PushResult(rs, k) == Append(rs, k)

\* the head of the outer loop.  When the loop is left with active jobs the
\* call awaits Promise.all of them ("all"), else it returns the results
Dispatch ==
  /\ run.pc = "loop"
  /\ run' = [run EXCEPT !.pc = IF LoopOn(run) THEN "next"
                               ELSE IF run.activeJobs # {} THEN "all"
                               ELSE "returned"]

\* the head of the loop of processNextKeyword: it starts the next job and
\* awaits delay(1000), or the function is over
ProcessNextKeyword ==
  /\ run.pc = "next"
  /\ run' = IF CanStart(run)
              THEN [run EXCEPT
                      !.status[run.keywordIndex + 1] = "running",
                      !.started = Append(run.started, run.keywordIndex),
                      !.activeJobs = run.activeJobs \cup {run.keywordIndex},
                      !.keywordIndex = run.keywordIndex + 1,
                      !.pc = "delay"]
              ELSE [run EXCEPT !.pc = "back"]

\* await delay(1000) is over
DelayResume ==
  /\ run.pc = "delay"
  /\ run' = [run EXCEPT !.pc = "next"]

\* back in the outer loop: if (activeJobs.size > 0) await Promise.race(...)
AfterNext ==
  /\ run.pc = "back"
  /\ run' = IF run.activeJobs # {}
              THEN [run EXCEPT !.race = [on |-> run.activeJobs, state |-> "pending"],
                               !.pc = "race"]
              ELSE [run EXCEPT !.pc = "loop"]

\* the race has settled: the loop goes on, or the rejection leaves
\* processMultipleKeywords, which has no handler for it
RaceResume ==
  /\ run.pc = "race"
  /\ run.race.state \in {"resolved", "rejected"}
  /\ run' = [run EXCEPT !.race = NoRace,
                        !.pc = IF run.race.state = "resolved" THEN "loop"
                                                             ELSE "rejected"]

\* the race awaited settles with the first of its promises that settles
Settled(r, k, how) ==
  IF r.race.state = "pending" /\ k \in r.race.on
    THEN [r.race EXCEPT !.state = how]
    ELSE r.race

\* processJob of job k returns: the then handler runs
JobResolves(k) ==
  /\ k + 1 \in DOMAIN run.status
  /\ run.status[k + 1] = "running"
  /\ run' = [run EXCEPT !.status[k + 1] = "resolved",
                        !.results = PushResult(run.results, k),
                        !.activeJobs = run.activeJobs \ {k},
                        !.race = Settled(run, k, "resolved")]

\* processJob of job k rejects: the catch handler runs and throws again
JobRejects(k) ==
  /\ k + 1 \in DOMAIN run.status
  /\ run.status[k + 1] = "running"
  /\ run' = [run EXCEPT !.status[k + 1] = "rejected",
                        !.activeJobs = run.activeJobs \ {k},
                        !.race = Settled(run, k, "rejected")]

\* processMultipleKeywords(keywords) is called on a tracker built with
\* maxConcurrentTabs = max
InitRun ==
  /\ proxies = << >>
  /\ proxyUsage = [i \in {} |-> 0]
  /\ currentIndex = 0
  /\ options = [requestsPerMinute |-> DefaultRequestsPerMinute,
                cooldownPeriod |-> DefaultCooldownPeriod,
                rotationStrategy |-> "round-robin"]
  /\ now = RateWindow
  /\ result = NoResult
  /\ calls = 0
  /\ history = << >>
  /\ InitDriverManager(DefaultMaxTabs)
  /\ browserPool = {}
  /\ liveBrowsers = 0
  /\ checks = [s \in PageSlots |-> IdleAttempt]
  /\ job = NoJob
  /\ \E n \in 0..MaxKeywords, max \in Concurrencies :
       run = [NoRun EXCEPT !.pc = "loop", !.n = n, !.max = max,
                           !.status = [k \in 1..n |-> "queued"]]

RunFrame ==
  UNCHANGED <<poolVars, now, tabVars, browserPool, liveBrowsers, checks, job>>

DispatcherStep ==
  \/ Dispatch /\ RunFrame
  \/ ProcessNextKeyword /\ RunFrame
  \/ DelayResume /\ RunFrame
  \/ AfterNext /\ RunFrame
  \/ RaceResume /\ RunFrame

NextRun ==
  \/ DispatcherStep
  \/ \E k \in 0..(MaxKeywords - 1) : JobResolves(k) /\ RunFrame
  \/ \E k \in 0..(MaxKeywords - 1) : JobRejects(k) /\ RunFrame

\* the event loop runs the dispatcher when it can run; every job that was
\* started settles
SpecRun ==
  /\ InitRun
  /\ [][NextRun]_vars
  /\ WF_vars(DispatcherStep)
  /\ \A k \in 0..(MaxKeywords - 1) :
       WF_vars((JobResolves(k) \/ JobRejects(k)) /\ RunFrame)

\* ------------------------------------------------------------------ claims
\* the usage count a call at time t finds in the resource's current window
CountInWindow(u, t) == IF InWindow(u, t) THEN u.usageCount ELSE 0

\* C1: in every reachable state, each resource's usageCount within its current
\* window is at most requestsPerMinute.
C1_UsageWithinBudget ==
  \A id \in DOMAIN proxyUsage :
    CountInWindow(proxyUsage[id], now) <= options.requestsPerMinute

\* C2: getNextProxy never returns a resource that at call time is inactive,
\* is in cooldown (cooldownUntil > now), or has used up its budget in the
\* current window.
C2_ReturnedIsEligible ==
  [][(GetNextProxy /\ result'.kind = "proxy") =>
       LET p == result'.proxy IN
       /\ p.isActive
       /\ p.id \in DOMAIN proxyUsage =>
            /\ proxyUsage[p.id].cooldownUntil <= now
            /\ CountInWindow(proxyUsage[p.id], now) < options.requestsPerMinute
    ]_vars

\* C3: a getNextProxy call that returns a resource found a free budget slot on
\* it and takes that slot in the same step: usageCount goes up by one from the
\* count in the window and lastUsed becomes now, so a resource with k slots
\* left is handed to at most k of any interleaved calls.
C3_SelectionReservesSlot ==
  [][(GetNextProxy /\ result'.kind = "proxy") =>
       LET id == result'.proxy.id
           before == CountInWindow(proxyUsage[id], now)
       IN /\ before < options.requestsPerMinute
          /\ proxyUsage'[id].usageCount = before + 1
          /\ proxyUsage'[id].usageCount <= options.requestsPerMinute
          /\ proxyUsage'[id].lastUsed = now
    ]_vars

\* C3 witness: a call has just taken the last slot of a resource whose budget
\* is larger than one
C3_LastSlotTaken ==
  /\ result.kind = "proxy"
  /\ options.requestsPerMinute >= 2
  /\ result.proxy.id \in DOMAIN proxyUsage
  /\ proxyUsage[result.proxy.id].usageCount = options.requestsPerMinute
  /\ proxyUsage[result.proxy.id].lastUsed = now

\* ------------------------------------------------- claims on recorded runs
\* the usage map before and after the k-th recorded call
UsageMapBefore(k) ==
  IF k = 1 THEN MapSet([i \in {} |-> 0], TheProxy, FreshUsage(1))
           ELSE history[k - 1].usage
UsageBefore(k) == UsageMapBefore(k)[TheProxy]
UsageAfter(k) == history[k].usage[TheProxy]
IsCall(k, op) == k \in 1..Len(history) /\ history[k].op = op

\* C4 (scenario A): on a pool of one active resource with requestsPerMinute = 2,
\* three getNextProxy calls in a row inside one window return the resource, the
\* resource, and then proxy = null with a positive nextAvailableIn.
C4_ScenarioA ==
  (/\ options.requestsPerMinute = 2
   /\ \A k \in 1..3 : IsCall(k, "getNextProxy")
   /\ history[3].t - history[1].t < RateWindow)
  => /\ \A k \in 1..2 : /\ history[k].ret.kind = "proxy"
                        /\ history[k].ret.proxy = proxies[1]
     /\ history[3].ret.kind = "null"
     /\ history[3].ret.nextAvailableIn # None
     /\ \A w \in history[3].ret.nextAvailableIn : w > 0

\* C4 witness: the three calls of scenario A have been made, the third one
\* later than the first but inside its window
C4_ScenarioARun ==
  /\ options.requestsPerMinute = 2
  /\ \A k \in 1..3 : IsCall(k, "getNextProxy")
  /\ history[3].t - history[1].t < RateWindow
  /\ history[3].t > history[1].t
  /\ history[3].ret.kind = "null"

RECURSIVE DetectionRun(_)
DetectionRun(k) ==
  IF k = 0 \/ history[k].op = "markProxyUsed" THEN 0
  ELSE DetectionRun(k - 1) + (IF history[k].op = "markProxyDetected" THEN 1 ELSE 0)

\* the base period of the k-th recorded call and the cooldown it left
PeriodAt(k) == IF history[k].arg # 0 THEN history[k].arg ELSE options.cooldownPeriod
PenaltyAt(k) == UsageAfter(k).cooldownUntil - history[k].t
SameRun(j, k) == \A i \in j..k : history[i].op # "markProxyUsed"

\* C6: the n-th consecutive markProxyDetected with no markProxyUsed in between
\* sets cooldownUntil = now + period for n = 1 and now + period * n for n >= 2;
\* over the calls of one run made with the same period, cooldownUntil - now
\* never decreases and is larger for every n > 1 than for n = 1.
C6_EscalatingPenalty ==
  \A k \in 1..Len(history) :
    IsCall(k, "markProxyDetected") =>
      LET n == DetectionRun(k) IN
      /\ PenaltyAt(k) = IF n = 1 THEN PeriodAt(k) ELSE PeriodAt(k) * n
      /\ \A j \in 1..(k - 1) :
           (/\ IsCall(j, "markProxyDetected")
            /\ SameRun(j, k)
            /\ PeriodAt(j) = PeriodAt(k))
           => /\ PenaltyAt(j) <= PenaltyAt(k)
              /\ DetectionRun(j) = 1 => PenaltyAt(j) < PenaltyAt(k)

\* C6 witness: a third consecutive detection with the configured period
C6_ThirdDetection ==
  \E k \in 1..Len(history) :
    /\ IsCall(k, "markProxyDetected")
    /\ DetectionRun(k) = 3
    /\ \A j \in (k - 2)..k : history[j].arg = 0
    /\ PenaltyAt(k) = 3 * options.cooldownPeriod

\* C7: between two markProxyUsed calls, no getNextProxy or markProxyDetected
\* call (with or without a cooldown argument) lowers a resource's
\* cooldownUntil.
C7_CooldownNeverDecreases ==
  [][(GetNextProxy \/ \E id \in ProxyIds, arg \in CooldownArgs :
                       MarkProxyDetected(id, arg))
       => \A id \in DOMAIN proxyUsage :
            proxyUsage'[id].cooldownUntil >= proxyUsage[id].cooldownUntil
    ]_vars

\* C8: markProxyUsed only resets consecutiveDetections to 0, and a second call
\* right after the first leaves the pool as the first left it.
C8_MarkUsedIdempotent ==
  \A k \in 1..Len(history) :
    IsCall(k, "markProxyUsed") =>
      /\ history[k].usage =
           [UsageMapBefore(k) EXCEPT ![TheProxy].consecutiveDetections = 0]
      /\ IsCall(k - 1, "markProxyUsed") => history[k].usage = history[k - 1].usage

\* the calls k, k+1, ... k+4 are scenario C: three detections, a success, and
\* one more detection
IsScenarioC(k) ==
  /\ \A j \in k..(k + 2) : IsCall(j, "markProxyDetected")
  /\ IsCall(k + 3, "markProxyUsed")
  /\ IsCall(k + 4, "markProxyDetected")

\* C9 (scenario C): after three consecutive markProxyDetected calls and one
\* markProxyUsed, consecutiveDetections is 0, and the next markProxyDetected
\* applies the first-tier penalty (its period, not a multiple of it).
C9_ScenarioC ==
  \A k \in 1..Len(history) :
    IsScenarioC(k) =>
      /\ UsageAfter(k + 2).consecutiveDetections = DetectionRun(k + 2)
      /\ UsageAfter(k + 2).consecutiveDetections >= 3
      /\ UsageAfter(k + 3).consecutiveDetections = 0
      /\ PenaltyAt(k + 4) = PeriodAt(k + 4)

\* C9 witness: scenario C has been run, the three detections having escalated
C9_ScenarioCRun ==
  \E k \in 1..Len(history) :
    /\ IsScenarioC(k)
    /\ PenaltyAt(k + 2) = 3 * PeriodAt(k + 2)

\* C10: getNextProxy never throws, whatever addProxy (also of a repeated id),
\* removeProxy, deactivateProxy, reactivateProxy, markProxyUsed and
\* markProxyDetected calls came before.
C10_NeverThrows == result.kind # "throw"

\* --------------------------------------------------- claims on the selection
\* a resource a getNextProxy call at time t may return: active, not in
\* cooldown, and with budget left in its current window
Eligible(p, u, t, opts) ==
  /\ p.isActive
  /\ p.id \in DOMAIN u =>
       /\ u[p.id].cooldownUntil <= t
       /\ CountInWindow(u[p.id], t) < opts.requestsPerMinute

\* the minimum positive cooldownUntil - t over the active resources of the pool
MinPositiveWait(ps, u, t) ==
  LET waits == {u[ps[k].id].cooldownUntil - t : k \in
                  {j \in 1..Len(ps) : /\ ps[j].isActive
                                      /\ ps[j].id \in DOMAIN u
                                      /\ u[ps[j].id].cooldownUntil > t}}
  IN IF waits = {} THEN None ELSE Some(Min(waits))

\* C11: whenever getNextProxy returns proxy = null, nextAvailableIn is the
\* minimum positive cooldownUntil - now over the active resources (as the call
\* leaves them), and it is null only when no active resource is in cooldown.
C11_NextAvailableIn ==
  [][(GetNextProxy /\ result'.kind = "null") =>
       result'.nextAvailableIn = MinPositiveWait(proxies, proxyUsage', now)
    ]_vars

\* the pool, the usage map and the cursor before the k-th recorded call of
\* SpecPool
PoolBefore(k) == IF k = 1 THEN InitialPool ELSE history[k - 1].pool
PoolUsageBefore(k) == IF k = 1 THEN InitialPoolUsage ELSE history[k - 1].usage
IndexBefore(k) == IF k = 1 THEN 0 ELSE history[k - 1].index
IsAdminCall(k) == IsCall(k, "deactivateProxy") \/ IsCall(k, "reactivateProxy")

\* the k-th recorded call changed nothing but the isActive flag of the
\* resource it names
FlagOnly(k) ==
  /\ history[k].usage = PoolUsageBefore(k)
  /\ history[k].index = IndexBefore(k)
  /\ Len(history[k].pool) = Len(PoolBefore(k))
  /\ \A j \in 1..Len(PoolBefore(k)) :
       /\ history[k].pool[j].id = PoolBefore(k)[j].id
       /\ PoolBefore(k)[j].id # history[k].id => history[k].pool[j] = PoolBefore(k)[j]
  /\ \A j \in 1..Len(PoolBefore(k)) :
       PoolBefore(k)[j].id = history[k].id =>
         history[k].pool[j].isActive = (history[k].op = "reactivateProxy")

\* the calls k and k+1 are deactivateProxy(id) and reactivateProxy(id)
IsRoundTrip(k) ==
  /\ IsCall(k, "deactivateProxy")
  /\ IsCall(k + 1, "reactivateProxy")
  /\ history[k + 1].id = history[k].id

Restored(k) ==
  /\ history[k + 1].pool = PoolBefore(k)
  /\ history[k + 1].usage = PoolUsageBefore(k)
  /\ history[k + 1].index = IndexBefore(k)

\* C12 as stated: deactivateProxy(id) and reactivateProxy(id) change only the
\* resource's isActive flag, and deactivate followed by reactivate restores
\* the pool state exactly.
C12_FlagOnlyAndRestored ==
  \A k \in 1..Len(history) :
    /\ IsAdminCall(k) => FlagOnly(k)
    /\ IsRoundTrip(k) => Restored(k)

\* C12 (amended): deactivateProxy(id) and reactivateProxy(id) change only the
\* resource's isActive flag, and deactivate followed by reactivate restores
\* the pool state exactly when the resource was active before the deactivate.
C12_FlagOnlyAndActiveRestored ==
  \A k \in 1..Len(history) :
    /\ IsAdminCall(k) => FlagOnly(k)
    /\ (/\ IsRoundTrip(k)
        /\ \A j \in 1..Len(PoolBefore(k)) :
             PoolBefore(k)[j].id = history[k].id => PoolBefore(k)[j].isActive)
       => Restored(k)

\* C12 witness: a resource with usage history (it has been selected, and is
\* inside its window) is deactivated and reactivated while the other resource
\* has usage history too
C12_RoundTripWithHistory ==
  \E k \in 1..Len(history) :
    /\ IsRoundTrip(k)
    /\ \A id \in DOMAIN PoolUsageBefore(k) : PoolUsageBefore(k)[id].usageCount > 0
    /\ \A j \in 1..Len(PoolBefore(k)) : PoolBefore(k)[j].isActive
    /\ \E j \in 1..Len(history[k].pool) : ~history[k].pool[j].isActive
    /\ Restored(k)

\* the position the round-robin cursor reaches after d steps from index
\* (positions are 1-based, the cursor 0-based as in the code)
CursorAt(index, d, n) == ((index + d) % n) + 1

\* C13: under round-robin, getNextProxy returns the first eligible resource
\* found by advancing the cursor cyclically through the pool, skipping the
\* ineligible entries, and leaves the cursor on it (so k calls in a row on a
\* pool of k resources that stay eligible return each resource once).
C13_RoundRobinFirstEligible ==
  [][(/\ GetNextProxy
      /\ options.rotationStrategy = "round-robin"
      /\ result'.kind = "proxy") =>
       LET n == Len(proxies)
           hits == {d \in 1..n :
                      Eligible(proxies[CursorAt(currentIndex, d, n)], proxyUsage,
                               now, options)}
       IN /\ hits # {}
          /\ result'.proxy = proxies[CursorAt(currentIndex, Min(hits), n)]
          /\ currentIndex' = CursorAt(currentIndex, Min(hits), n) - 1
    ]_vars

\* the count of the resource at position k that the least-used strategy
\* compares
CountAt(ps, u, k, t) ==
  IF ps[k].id \in DOMAIN u THEN CountInWindow(u[ps[k].id], t) ELSE 0

\* C14: under least-used, getNextProxy returns an eligible resource whose
\* usageCount (in its window) is minimal among the eligible ones, and among
\* the resources tied on that minimum the first in pool order.
C14_LeastUsedFirstMinimum ==
  [][(/\ GetNextProxy
      /\ options.rotationStrategy = "least-used"
      /\ result'.kind = "proxy") =>
       LET E == {k \in 1..Len(proxies) : Eligible(proxies[k], proxyUsage, now, options)}
           least == {k \in E : \A j \in E :
                       CountAt(proxies, proxyUsage, k, now)
                         <= CountAt(proxies, proxyUsage, j, now)}
       IN /\ least # {}
          /\ result'.proxy = proxies[Min(least)]
    ]_vars

\* C14 witness: the second resource of the pool has just been returned because
\* the first, also eligible, had one use in its window and the second none
C14_SecondIsLeastUsed ==
  /\ options.rotationStrategy = "least-used"
  /\ options.requestsPerMinute = 2
  /\ result.kind = "proxy"
  /\ Len(proxies) = 2
  /\ proxies[1].id # proxies[2].id
  /\ proxies[1].isActive
  /\ result.proxy = proxies[2]
  /\ proxies[1].id \in DOMAIN proxyUsage
  /\ proxies[2].id \in DOMAIN proxyUsage
  /\ proxyUsage[proxies[1].id].cooldownUntil <= now
  /\ InWindow(proxyUsage[proxies[1].id], now)
  /\ proxyUsage[proxies[1].id].usageCount = 1
  /\ proxyUsage[proxies[2].id].usageCount = 1

\* the tabs of the pool that are busy (isActive = true)
BusyTabs == {k \in 1..Len(tabs) : tabs[k].isActive}

\* C15: the number of busy tabs never exceeds the ceiling maxTabs given to the
\* constructor: getTab hands out no tab while maxTabs tabs are busy.
C15_BusyWithinCeiling == Cardinality(BusyTabs) <= maxTabs

\* C16: a tab is held by one in-flight job at a time, also when a job has
\* called releaseTab a second time on the tab it had released and other jobs
\* have called getTab between and after the two releases.
C16_OneHolderPerTab ==
  \A i, j \in Jobs :
    (i # j /\ jobs[i].pc = "holding" /\ jobs[j].pc = "holding")
      => jobs[i].tabId # jobs[j].tabId

\* job j holds a tab that is registered in ts and whose window is open in ws
HoldsLiveTab(j, js, ts, ws) ==
  /\ js[j].pc = "holding"
  /\ TabIndex(ts, js[j].tabId) # 0
  /\ ts[TabIndex(ts, js[j].tabId)].handle \in Range(ws)

\* C17: a tab a job holds stays registered, with its window open, across
\* every step of a getTab call of another job, the restart of the browser by
\* setProxy included.
C17_BusyTabSurvivesGetTab ==
  [][\A j \in Jobs :
       (/\ HoldsLiveTab(j, jobs, tabs, windows)
        /\ \E i \in Jobs \ {j} : GetTabStep(i))
         => HoldsLiveTab(j, jobs', tabs', windows')
    ]_vars

\* the step of job j in which its call getTab(arg) searches the pool for an
\* idle tab (line 202), at the call or after the browser has been started
SearchStep(j, arg) ==
  \/ driver # "null" /\ GetTab(j, arg)
  \/ jobs[j].ret = "find" /\ jobs[j].arg = arg /\ ReadyResume(j)

\* the window of the tab at position k of the pool can be switched to
Usable(k) == Alive /\ tabs[k].handle \in Range(windows)

\* C18: when getTab finds an idle tab for the requested resource and the
\* tab's window can no longer be switched to, the call does not fail: the tab
\* is dropped from the pool and the call goes on to create a new one.
C18_FailedProbeFallsThrough ==
  [][\A j \in Jobs, arg \in TabArgs :
       LET k == FindIdleTab(tabs, RequestedId(arg)) IN
       (SearchStep(j, arg) /\ k # 0 /\ ~Usable(k))
         => /\ jobs'[j].err = "none"
            /\ TabIndex(tabs', tabs[k].id) = 0
    ]_vars

\* the idle tabs of the pool bound to the resource of a request getTab(arg);
\* a request without a resource is bound to "default"
IdleFor(arg) ==
  {k \in 1..Len(tabs) : tabs[k].proxyId = BoundId(arg) /\ ~tabs[k].isActive}

\* C19: a getTab(r) that finds the pool with an idle tab bound to r (for
\* r = null, an idle tab without a resource) returns one of these tabs and
\* creates none; and a tab of the pool that getTab returns was idle and bound
\* to r.
C19_ReuseIdleOfSameResource ==
  [][\A j \in Jobs, arg \in TabArgs :
       SearchStep(j, arg) =>
         /\ IdleFor(arg) # {} =>
               /\ nextTab' = nextTab
               /\ jobs'[j].pc = "holding"
               /\ \E k \in IdleFor(arg) : jobs'[j].tabId = tabs[k].id
         /\ (jobs'[j].pc = "holding" /\ TabIndex(tabs, jobs'[j].tabId) # 0) =>
               \E k \in IdleFor(arg) : jobs'[j].tabId = tabs[k].id
    ]_vars

\* the idle tabs of ts bound to the resource id
IdleOf(ts, id) == {k \in 1..Len(ts) : ts[k].proxyId = id /\ ~ts[k].isActive}

\* C20: releaseTab marks the tab idle (isActive = false, lastUsed = now) and
\* starts closing it exactly when keeping it would leave more than one idle
\* tab for its resource; otherwise the tab is kept for reuse.
C20_ReleaseClosesOnlyExcessIdle ==
  [][\A j \in Jobs :
       LET k == TabIndex(tabs, jobs[j].tabId) IN
       (ReleaseTab(j) /\ k # 0) =>
         /\ ~tabs'[k].isActive
         /\ tabs'[k].lastUsed = now
         /\ (Len(closers') > Len(closers))
              <=> (Cardinality(IdleOf(tabs', tabs[k].proxyId)) > 1)
    ]_vars

\* C21: for as long as the tracker has not shut the pool down (no closeBrowser
\* by cleanup), the interval of the sweep stays scheduled, so that tabs idle
\* for too long are closed in the end; also after getTab has created tabs and
\* restarted the browser for another resource.
C21_SweepScheduledUntilShutdown == cleanup.pc = "none" => cleanupTimer = "set"

\* C22: when the closeBrowser called by cleanup returns, the pool has no tab
\* registered, busy or idle, and holds no browser, also when quit() failed.
C22_NothingLeftAfterCloseBrowser ==
  [][(cleanup.pc # "returned" /\ cleanup'.pc = "returned")
       => (tabs' = << >> /\ driver' = "null")
    ]_vars

\* C23: when a getTab that restarted the browser through setProxy returns,
\* every tab registered in the pool, the one it returns included, has a
\* window handle of the browser that is running.
C23_HandlesOfRunningBrowser ==
  [][\A j \in Jobs :
       (jobs[j].ret = "set" /\ jobs'[j].pc = "holding" /\ ReadyResume(j))
         => \A k \in 1..Len(tabs') : tabs'[k].handle \in Range(windows')
    ]_vars

\* C25: a tab that getTab marked busy for an attempt is released before the
\* attempt ends, on every path, the one on which getTab is rejected after it
\* marked the tab included: when a getTab call is rejected and the job is
\* back outside any attempt, the call has left no tab busy that was idle.
C25_RejectedGetTabLeavesNoTabBusy ==
  [][\A j \in Jobs, arg \in TabArgs :
       (SearchStep(j, arg) /\ jobs'[j].pc = "idle")
         => \A k \in 1..Len(tabs') :
              tabs'[k].isActive =>
                \E i \in 1..Len(tabs) : tabs[i].id = tabs'[k].id /\ tabs[i].isActive
    ]_vars

\* C24: in the Playwright tracker no browser outlives the checkKeywordRank
\* attempt that launched it: the live browsers are never more than the
\* attempts still in progress
C24_NoBrowserOutlivesItsAttempt ==
  liveBrowsers <= Cardinality({s \in PageSlots : checks[s].pc # "idle"})

\* C26: an iteration of processJob in which getNextProxy returns no resource
\* only sleeps and loops: it leaves retries and the error list as they were
C26_WaitIsNotAnAttempt ==
  [][(job.pc = "wait" /\ job'.pc = "loop")
       => (job'.retries = job.retries /\ job'.errors = job.errors)]_vars

C28_JobEnds ==
  (~job.hasPool /\ job.max = Infinity) => <>(job.pc = "done")

\* C29: with a finite MAX_RETRIES, a processJob call that stopped with retries
\* at the ceiling returns the give-up Result (rank null, url null, the errors
\* joined) and has appended one line to the stats file
C29_CeilingGivesUp ==
  (job.pc = "done" /\ job.max # Infinity /\ job.retries >= job.max)
    => /\ job.result = Some(GiveUpResult(job.errors))
       /\ Len(job.stats) = 1

C31_SuccessMarksUsedAndStops ==
  [][/\ (job.pc = "page" /\ job'.result # None) =>
          /\ job'.pc = "loop"
          /\ \E results \in SearchResults : job'.result = Some(FoundResult(results))
          /\ IF job.hasPool
               THEN /\ job.proxyConfig \in DOMAIN proxyUsage
                    /\ DOMAIN proxyUsage' = DOMAIN proxyUsage
                    /\ \A id \in DOMAIN proxyUsage :
                         IF id = job.proxyConfig
                           THEN proxyUsage'[id] =
                                  [proxyUsage[id] EXCEPT
                                     !.usageCount = proxyUsage[id].usageCount + 1,
                                     !.lastUsed = now,
                                     !.consecutiveDetections = 0]
                           ELSE proxyUsage'[id] = proxyUsage[id]
               ELSE proxyUsage' = proxyUsage
     /\ (job.result # None /\ job.pc \in {"loop", "after"}) =>
          /\ job'.result = job.result
          /\ job'.retries = job.retries
          /\ job'.pc \in {"after", "done"}
          /\ proxyUsage' = proxyUsage
    ]_vars

\* C31 witness: the job is over after a first attempt through resource "a"
\* that found the domain at rank 1; "a" was selected once and marked used once
C31_SucceededThroughPool ==
  /\ job.pc = "done"
  /\ job.hasPool
  /\ job.retries = 0
  /\ job.proxyConfig = TheProxy
  /\ \E r \in job.result : r.rank = Some(1)
  /\ proxyUsage[TheProxy].usageCount = 2

\* C32: the attempt of a job that follows an attempt failed on a detection
\* runs with another resource than the failed one
C32_RetryAfterDetectionChangesResource ==
  [][(/\ job.hasPool
      /\ job.pc = "try" /\ job'.pc = "check"
      /\ job.retries < MaxCount
      /\ Len(job.errors) > 0
      /\ job.errors[Len(job.errors)] = CheckFailed(CaptchaUnsolved))
       => job'.proxyConfig # job.usedProxyId]_vars

\* C33: an attempt is recorded as failed on the creation of its session
\* (getTab rejected) only after a second getTab call of the same attempt
C33_SessionCreationRetriedFirst ==
  [][(job.pc = "catch" /\ job.thrown.cause = "session" /\ job'.pc = "delay")
       => job.sessions >= 2]_vars

\* the jobs whose processJob call is in progress
RunningJobs == {k \in 0..(run.n - 1) : run.status[k + 1] = "running"}
RejectedJobs == {k \in 0..(run.n - 1) : run.status[k + 1] = "rejected"}
\* how often k occurs in a list of job numbers
Occurrences(q, k) == Cardinality({i \in 1..Len(q) : q[i] = k})

\* C34: in processMultipleKeywords the jobs in progress, and the entries of
\* activeJobs, are never more than maxConcurrentTabs
C34_ActiveWithinConcurrency ==
  /\ Cardinality(RunningJobs) <= run.max
  /\ Cardinality(run.activeJobs) <= run.max
  /\ RunningJobs \subseteq run.activeJobs

\* C34 witness: concurrency 2 and 5 keywords; the first two jobs are over, the
\* next two are in progress and the last is still queued
C34_TwoOfFiveRunning ==
  /\ run.n = 5 /\ run.max = 2
  /\ run.keywordIndex = 4
  /\ Cardinality(RunningJobs) = 2
  /\ Len(run.results) = 2

\* C35: when every job returns, processMultipleKeywords returns, and at its
\* return every keyword's job was started once, results holds one result per
\* keyword, and activeJobs is empty
C35_RunReturnsAllResults ==
  /\ <>(run.pc = "returned" \/ RejectedJobs # {})
  /\ [](( run.pc = "returned" /\ RejectedJobs = {}) =>
          /\ Len(run.started) = run.n
          /\ Len(run.results) = run.n
          /\ \A k \in 0..(run.n - 1) :
               Occurrences(run.started, k) = 1 /\ Occurrences(run.results, k) = 1
          /\ run.activeJobs = {})

\* C35 witness: a call with 5 keywords and concurrency 2 has returned its 5
\* results, which came in another order than the jobs were started
C35_ReturnedFiveOutOfOrder ==
  /\ run.pc = "returned"
  /\ run.n = 5 /\ run.max = 2
  /\ RejectedJobs = {}
  /\ Len(run.results) = 5
  /\ run.results # run.started

\* C36: a processJob promise that rejects does not end processMultipleKeywords:
\* the call never ends by rejecting
C36_JobErrorDoesNotEndRun == run.pc # "rejected"

\* C37: the driver.get of a job never loads its page in a tab that another
\* job holds
C37_NavigatesOwnTab == \A j \in Jobs : jobs[j].nav # "foreign"

\* C38: a step of a closeTab task started by a release neither closes the
\* window nor drops the registration of its tab when the tab is busy again
\* (a getTab has returned it since the release)
C38_CloseSparesReacquiredTab ==
  [][\A i \in 1..Len(closers) : CloseStep(i) =>
       \A k \in 1..Len(tabs) :
         (tabs[k].id = closers[i].tab /\ tabs[k].isActive) =>
           /\ \E m \in 1..Len(tabs') : tabs'[m].id = tabs[k].id
           /\ tabs[k].handle \in Range(windows)
                => tabs[k].handle \in Range(windows')]_vars

\* C39: the build() of initializeBrowser completes only when the manager keeps
\* no browser: no browser that this.driver refers to is overwritten by a
\* second one
C39_OneBrowserBuilt ==
  [][\A j \in Jobs : BuildResume(j) => driver = "null"]_vars

\* C40: the getNextProxy call a job makes after it has waited the
\* nextAvailableIn of a call that returned no resource, with no other pool
\* operation in between, returns a resource
C40_WaitHintSuffices ==
  [][(/\ job.hasPool
      /\ job.pc = "try" /\ job'.pc # "try"
      /\ result.kind = "null"
      /\ result.nextAvailableIn # None)
       => result'.kind = "proxy"]_vars

====
